---- MODULE Spec2Model ----
(***************************************************************************)
(* A model of tap_facebook/service.py: FacebookReportingService.           *)
(*                                                                         *)
(*   retrieve_paged_data   one cursor-paginated GET sequence with a single *)
(*                         restart at a lower page-size limit              *)
(*   retrieve_account_ids  GET /me, then the paged ad-accounts fetch       *)
(*   get_reports           discovery, then one task per account on a       *)
(*                         ThreadPoolExecutor(max_workers=5)               *)
(*   retrieve_report_for_account / map_record                              *)
(*                         the task: parameters, insights fetch, mapping,  *)
(*                         singer.write_records                            *)
(*                                                                         *)
(* The remote API is the environment: each request is answered by any      *)
(* response of a finite alphabet.  JSON objects are records, and a key     *)
(* test `k in obj` is `k \in DOMAIN obj`.                                  *)
(***************************************************************************)
EXTENDS Integers, Sequences, FiniteSets, TLC

\* ------------------------------------------------------------- constants
\* service.py:12
MAX_PAGE_SIZE == 5000
\* service.py:215, the literal the limit is lowered to
LOWER_LIMIT == 1000
\* service.py:129, ThreadPoolExecutor(max_workers=5)
max_workers == 5
\* the only status the loop accepts (service.py:212)
HTTP_OK == 200

\* --------------------------------------------------------------- bounds
\* pages the server chains in one attempt of a fetch (SpecFetch)
MaxPages == 3
\* items in one page's data array (SpecFetch)
MaxItems == 2
\* accounts the discovery returns in Spec
MaxAccounts == 2
\* accounts the discovery returns in SpecPool (more than max_workers)
PoolAccounts == 6

\* Fetch contexts: 0 is the ad-accounts fetch of retrieve_account_ids,
\* a >= 1 is the insights fetch of the task of the a-th account.
Ctx == 0..PoolAccounts
Accounts == 1..PoolAccounts

VARIABLES
    config,       \* self.stream, self.config['dateRange'], self.props
    pc,           \* get_reports (main thread): me, adaccounts, join, done, failed
    me_requested, \* number of GET /me requests issued
    account_ids,  \* the list retrieve_account_ids returned
    fetch,        \* per context, the frame of retrieve_paged_data
    http,         \* per context, the exchanges of its fetch: request and response
    task,         \* per account, its unit of work on the executor
    invoked,      \* per account, calls of retrieve_report_for_account
    sink          \* per account, the batches given to singer.write_records

vars == <<config, pc, me_requested, account_ids, fetch, http, task, invoked, sink>>

\* ----------------------------------------------------------- sequences
RECURSIVE Flatten(_)
Flatten(ss) == IF ss = <<>> THEN <<>> ELSE Head(ss) \o Flatten(Tail(ss))

Range(s) == {s[i] : i \in 1..Len(s)}

\* ------------------------------------------------------ the remote API
\* The opaque continuation token the server puts in the n-th response.
Cursor(n) == <<"cursor", n>>
\* The empty string the first request carries (next_page_token = '').
NoCursor == <<"cursor", 0>>

\* The i-th item of the data array of the n-th response of a fetch.
AccountItem(n, i) == [id |-> <<"act", n, i>>]
GoodInsight(n, i) == [campaign_id |-> <<n, i>>, date_start |-> "2020-01-01", clicks |-> "3"]
\* an insight item without date_start
UndatedInsight(n, i) == [campaign_id |-> <<n, i>>, clicks |-> "3"]
\* an insight item whose clicks value is not a number
UncoercibleInsight(n, i) == [campaign_id |-> <<n, i>>, date_start |-> "2020-01-01", clicks |-> "abc"]

Item(c, n, i) == IF c = 0 THEN AccountItem(n, i) ELSE GoodInsight(n, i)
Data(c, n, k) == [i \in 1..k |-> Item(c, n, i)]

\* The `paging` objects of the envelope.  Only LastPaging and NextPaging are
\* the documented shapes; the other two lack `cursors`.
LastPaging(n) == [cursors |-> [after |-> Cursor(n)]]
NextPaging(n) == [cursors |-> [after |-> Cursor(n)], next |-> "url"]
BareNextPaging == [next |-> "url"]
BarePreviousPaging == [previous |-> "url"]

NetworkError == [kind |-> "neterr"]
FailureStatus == [kind |-> "http", status |-> 500, parses |-> TRUE, body |-> [error |-> "e"]]
Unparseable == [kind |-> "http", status |-> HTTP_OK, parses |-> FALSE, body |-> [error |-> "e"]]
Page(body) == [kind |-> "http", status |-> HTTP_OK, parses |-> TRUE, body |-> body]

\* Whether the response makes the loop go round again.
Chains(r) ==
    /\ r.kind = "http" /\ r.status = HTTP_OK /\ r.parses
    /\ "data" \in DOMAIN r.body
    /\ "paging" \in DOMAIN r.body
    /\ "next" \in DOMAIN r.body.paging
    /\ "cursors" \in DOMAIN r.body.paging
    /\ "after" \in DOMAIN r.body.paging.cursors

\* Every response the n-th request of a fetch in context c may get, pages
\* of `sizes` items.
AllResponses(c, n, sizes) ==
    {NetworkError, FailureStatus, Unparseable, Page([error |-> "e"])}
    \cup {Page([data |-> Data(c, n, k)]) : k \in sizes}
    \cup {Page([data |-> Data(c, n, k), paging |-> p]) :
            k \in sizes, p \in {LastPaging(n), NextPaging(n), BareNextPaging, BarePreviousPaging}}

\* ------------------------------------------------- retrieve_paged_data
\* The frame on entry: result = [], has_next_page = True, next_page_token = ''
\* (st = "loop" is has_next_page = True, st = "returned" is after the return).
EnterFetch(limit) ==
    [st |-> "loop", limit |-> limit, next_page_token |-> NoCursor, result |-> <<>>]
NoFetch == [st |-> "idle", limit |-> MAX_PAGE_SIZE, next_page_token |-> NoCursor, result |-> <<>>]

\* The request of one iteration: params with params['after'] = next_page_token.
RequestOf(f) == [limit |-> f.limit, after |-> f.next_page_token]

\* (mutant) the handler drops what was accumulated
OnException_Empty(f) == [f EXCEPT !.st = "returned", !.result = <<>>]

\* `except Exception` and the `return result` after it.
OnException(f) == [f EXCEPT !.st = "returned"]

\* (mutant) the restart keeps the frame: only the limit changes
OnFailureStatus_KeepsFrame(f) ==
    IF f.limit = MAX_PAGE_SIZE
    THEN [f EXCEPT !.limit = LOWER_LIMIT]
    ELSE [f EXCEPT !.st = "returned", !.result = <<>>]

\* (mutant) giving up returns what the attempt accumulated
OnFailureStatus_Partial(f) ==
    IF f.limit = MAX_PAGE_SIZE
    THEN EnterFetch(LOWER_LIMIT)
    ELSE [f EXCEPT !.st = "returned"]

\* (mutant) every non-success status restarts the fetch at the lower limit
OnFailureStatus_Retries(f) == EnterFetch(LOWER_LIMIT)

\* raw_response.status_code != 200: restart at the lower limit, or give up.
OnFailureStatus(f) ==
    IF f.limit = MAX_PAGE_SIZE
    THEN EnterFetch(LOWER_LIMIT)
    ELSE [f EXCEPT !.st = "returned", !.result = <<>>]

\* has_next_page = 'next' in response['paging'] if 'paging' in response else False
HasNextPage(response) ==
    IF "paging" \in DOMAIN response THEN "next" \in DOMAIN response.paging ELSE FALSE

\* response['paging']['cursors']['after'] raises KeyError
CursorRaises(response) ==
    /\ "paging" \in DOMAIN response
    /\ \/ "cursors" \notin DOMAIN response.paging
       \/ "after" \notin DOMAIN response.paging.cursors

\* next_page_token = response['paging']['cursors']['after'] if 'paging' in response else ''
NextPageToken(response) ==
    IF "paging" \in DOMAIN response THEN response.paging.cursors.after ELSE NoCursor

\* (mutant) the page is put in front of the result
Extend_Prepend(result, data) == data \o result

\* result.extend(response['data'])
Extend(result, data) == result \o data

\* The rest of an iteration once the body parsed.
OnPage(f, response) ==
    IF "data" \notin DOMAIN response
    THEN OnException(f)
    ELSE LET g == [f EXCEPT !.result = Extend(f.result, response.data)]
         IN  IF CursorRaises(response)
             THEN OnException(g)
             ELSE [g EXCEPT !.next_page_token = NextPageToken(response),
                            !.st = IF HasNextPage(response) THEN "loop" ELSE "returned"]

\* (mutant) a non-success status at the lower limit ends the fetch the way
\* an exception does
Iteration_FailureRaises(f, r) ==
    IF r.kind = "neterr" THEN OnException(f)
    ELSE IF r.status # HTTP_OK
         THEN IF f.limit = MAX_PAGE_SIZE THEN EnterFetch(LOWER_LIMIT) ELSE OnException(f)
    ELSE IF ~r.parses THEN OnException(f)
    ELSE OnPage(f, r.body)

\* One iteration of `while has_next_page`, given the response to its request.
Iteration(f, r) ==
    IF r.kind = "neterr" THEN OnException(f)
    ELSE IF r.status # HTTP_OK THEN OnFailureStatus(f)
    ELSE IF ~r.parses THEN OnException(f)
    ELSE OnPage(f, r.body)

\* Requests the current attempt (the current frame) has issued.
AttemptRequests(c) ==
    Cardinality({i \in 1..Len(http[c]) : http[c][i].request.limit = fetch[c].limit})

\* The server's chain of pages is finite: the pages-th page of an attempt
\* does not chain.
Offered(c, responses, pages) ==
    {r \in responses : Chains(r) => AttemptRequests(c) + 1 < pages}

\* The thread of context c is inside the loop of its fetch.
InLoop(c) ==
    /\ fetch[c].st = "loop"
    /\ IF c = 0 THEN pc = "adaccounts" ELSE task[c] = "running"

Request(c, responses, pages) ==
    /\ InLoop(c)
    /\ \E r \in Offered(c, responses, pages) :
        /\ http' = [http EXCEPT ![c] = Append(@, [request |-> RequestOf(fetch[c]), response |-> r])]
        /\ fetch' = [fetch EXCEPT ![c] = Iteration(@, r)]
    /\ UNCHANGED <<config, pc, me_requested, account_ids, task, invoked, sink>>

\* --------------------------------------------------------------- config
\* The destination schema the service of a run is constructed with: the
\* (key, type) pairs of schema["properties"] in self.props.
props ==
    << <<"campaign_id", "string">>, <<"clicks", "integer">>, <<"spend", "number">>,
       <<"report_date", "string">> >>

ValidConfig == [stream |-> "campaign_performance_report",
                dateRange |-> <<"20200101", ",", "20200131">>,
                props |-> props]

\* ------------------------------------- SpecFetch: one retrieve_paged_data
\* One call of retrieve_paged_data by either caller, answered from the whole
\* alphabet: by retrieve_account_ids (context 0), or by the task of the only
\* account (context 1).
InitFetch ==
    /\ config = ValidConfig
    /\ me_requested = 1
    /\ http = [c \in Ctx |-> <<>>]
    /\ sink = [a \in Accounts |-> <<>>]
    /\ \/ /\ pc = "adaccounts"
          /\ invoked = [a \in Accounts |-> 0]
          /\ account_ids = <<>>
          /\ task = [a \in Accounts |-> "none"]
          /\ fetch = [c \in Ctx |-> IF c = 0 THEN EnterFetch(MAX_PAGE_SIZE) ELSE NoFetch]
       \/ /\ pc = "join"
          /\ invoked = [a \in Accounts |-> IF a = 1 THEN 1 ELSE 0]
          /\ account_ids = <<AccountItem(1, 1).id>>
          /\ task = [a \in Accounts |-> IF a = 1 THEN "running" ELSE "none"]
          /\ fetch = [c \in Ctx |-> IF c = 1 THEN EnterFetch(MAX_PAGE_SIZE)
                                    ELSE [NoFetch EXCEPT !.st = IF c = 0 THEN "returned" ELSE "idle"]]

FetchStep == \E c \in {0, 1} : Request(c, AllResponses(c, Len(http[c]) + 1, 0..MaxItems), MaxPages)

NextFetch == FetchStep

SpecFetch == InitFetch /\ [][NextFetch]_vars

\* ------------------------------------------------------------- __init__
\* The keys of self.schema_map.
schema_map_keys ==
    {"campaign_performance_report", "campaign_by_placement_performance_report",
     "campaign_by_age_gender_performance_report",
     "campaign_by_impression_device_performance_report",
     "ad_performance_report", "ad_by_placement_performance_report",
     "ad_by_age_gender_performance_report", "ad_by_impression_device_performance_report",
     "offline_conversion_performance_report",
     "offline_conversion_by_age_gender_performance_report",
     "offline_conversion_by_impression_device_performance_report"}

default_actions ==
    <<"landing_page_view", "post_reaction", "video_view", "link_click", "page_engagement",
      "post_engagement", "post", "comment", "like", "action_reaction">>

\* self.schema_map[stream], for a stream of schema_map_keys
schema_map(stream) ==
    LET offline == stream \in {"offline_conversion_performance_report",
                               "offline_conversion_by_age_gender_performance_report",
                               "offline_conversion_by_impression_device_performance_report"}
        ad == stream \in {"ad_performance_report", "ad_by_placement_performance_report",
                          "ad_by_age_gender_performance_report",
                          "ad_by_impression_device_performance_report"}
    IN  [level |-> IF ad THEN "ad" ELSE "campaign",
         fields |-> IF offline THEN "common,actions,action_values"
                    ELSE IF ad THEN "common,ad_fields" ELSE "common,campaign_fields",
         supported_actions |-> IF offline THEN <<"offline_conversion.purchase">>
                               ELSE default_actions,
         action_values |-> offline]

\* ------------------------------------------------------------ parse_date
\* dateRange is a sequence of tokens, "," being the separator character.
\* str.split(','): the parts between the separators.
RECURSIVE split(_)
split(s) ==
    IF \A i \in 1..Len(s) : s[i] # ","
    THEN <<s>>
    ELSE LET k == CHOOSE i \in 1..Len(s) : s[i] = "," /\ \A j \in 1..(i-1) : s[j] # ","
         IN  <<SubSeq(s, 1, k - 1)>> \o split(SubSeq(s, k + 1, Len(s)))

\* The texts strptime(_, "%Y%m%d") accepts, with their strftime("%Y-%m-%d").
Calendar == [t \in {"20200101", "20200131", "20200201"} |->
                IF t = "20200101" THEN "2020-01-01"
                ELSE IF t = "20200131" THEN "2020-01-31" ELSE "2020-02-01"]

\* datetime.strptime raises ValueError
parse_date_raises(part) == ~(Len(part) = 1 /\ part[1] \in DOMAIN Calendar)
parse_date(part) == Calendar[part[1]]

\* ------------------------------------------------------------ map_record
\* int(text) and float(text): the texts that are numbers (floats in hundredths)
IntLiteral == [t \in {"0", "3", "12"} |-> IF t = "0" THEN 0 ELSE IF t = "3" THEN 3 ELSE 12]
FloatLiteral == [t \in {"0", "3", "12", "3.75"} |->
                    [hundredths |-> IF t = "0" THEN 0 ELSE IF t = "3" THEN 300
                                    ELSE IF t = "12" THEN 1200 ELSE 375]]

\* The values of an output record: an int, a float, or a raw JSON value
\* passed through ('' is RawValue("")).
IntValue(n) == [int |-> n]
FloatValue(h) == [float |-> h]
RawValue(v) == [raw |-> v]

\* The projection of one schema property raises ValueError.
CoerceRaises(item, prop) ==
    /\ prop[1] \in DOMAIN item
    /\ \/ prop[2] = "integer" /\ item[prop[1]] \notin DOMAIN IntLiteral
       \/ prop[2] = "number" /\ item[prop[1]] \notin DOMAIN FloatLiteral

\* (mutant) an absent key is defaulted to '' whatever its declared type
Projected_DefaultEmpty(item, prop) ==
    IF prop[1] \in DOMAIN item
    THEN IF prop[2] = "integer" THEN IntValue(IntLiteral[item[prop[1]]])
         ELSE IF prop[2] = "number" THEN FloatValue(FloatLiteral[item[prop[1]]].hundredths)
         ELSE RawValue(item[prop[1]])
    ELSE RawValue("")

\* obj[key] of the loop over self.props (lines 157-171)
Projected(item, prop) ==
    IF prop[1] \in DOMAIN item
    THEN IF prop[2] = "integer" THEN IntValue(IntLiteral[item[prop[1]]])
         ELSE IF prop[2] = "number" THEN FloatValue(FloatLiteral[item[prop[1]]].hundredths)
         ELSE RawValue(item[prop[1]])
    ELSE IF prop[2] \in {"integer", "number"} THEN IntValue(0) ELSE RawValue("")

\* obj[key] = value
Put(obj, key, value) ==
    [k \in DOMAIN obj \cup {key} |-> IF k = key THEN value ELSE obj[k]]

\* The assignments obj[kv[1]] = kv[2] of a for loop, in its order.
RECURSIVE AssignAll(_, _)
AssignAll(obj, kvs) ==
    IF kvs = <<>> THEN obj
    ELSE AssignAll(Put(obj, Head(kvs)[1], Head(kvs)[2]), Tail(kvs))

\* f'{action_type.replace(".", "_")}s'
ActionKey(action_type) ==
    CASE action_type = "landing_page_view" -> "landing_page_views"
      [] action_type = "post_reaction" -> "post_reactions"
      [] action_type = "video_view" -> "video_views"
      [] action_type = "link_click" -> "link_clicks"
      [] action_type = "page_engagement" -> "page_engagements"
      [] action_type = "post_engagement" -> "post_engagements"
      [] action_type = "post" -> "posts"
      [] action_type = "comment" -> "comments"
      [] action_type = "like" -> "likes"
      [] action_type = "action_reaction" -> "action_reactions"
      [] action_type = "offline_conversion.purchase" -> "offline_conversion_purchases"

\* list(filter(lambda a: a['action_type'] in types, entries))
Filtered(entries, types) == SelectSeq(entries, LAMBDA e : e.action_type \in types)

\* The entries of item[key] the loop of a step runs over (none without the key).
StepEntries(item, key, types) ==
    IF key \in DOMAIN item THEN Filtered(item[key], types) ELSE <<>>

\* The entries of the three action steps (lines 173-184).
ActionEntries(item, stream) ==
    StepEntries(item, "actions", Range(schema_map(stream).supported_actions))
UniqueEntries(item) == StepEntries(item, "unique_actions", {"link_click"})
ValueEntries(item, stream) ==
    IF schema_map(stream).action_values
    THEN StepEntries(item, "action_values", {"offline_conversion.purchase"})
    ELSE <<>>

\* (mutant) the first entry of an action type wins
ActionCounts_FirstWins(obj, entries) ==
    AssignAll(obj, [i \in 1..Len(entries) |->
                      <<ActionKey(entries[Len(entries) + 1 - i].action_type),
                        IntValue(IntLiteral[entries[Len(entries) + 1 - i].value])>>])

\* lines 175-176: obj[key of the action type] = int(action['value'])
ActionCounts(obj, entries) ==
    AssignAll(obj, [i \in 1..Len(entries) |->
                      <<ActionKey(entries[i].action_type), IntValue(IntLiteral[entries[i].value])>>])

\* lines 179-180
UniqueLinkClicks(obj, entries) ==
    AssignAll(obj, [i \in 1..Len(entries) |->
                      <<"unique_link_clicks", IntValue(IntLiteral[entries[i].value])>>])

\* lines 183-184
PurchaseValue(obj, entries) ==
    AssignAll(obj, [i \in 1..Len(entries) |->
                      <<"offline_conversion_purchase_value",
                        FloatValue(FloatLiteral[entries[i].value].hundredths)>>])

\* lines 187-188
VideoViews(obj, item) ==
    IF "video_views_p100" \in DOMAIN obj
    THEN Put(obj, "video_views_p100",
             IF "video_p100_watched_actions" \in DOMAIN item
             THEN IntValue(IntLiteral[item.video_p100_watched_actions[1].value])
             ELSE IntValue(0))
    ELSE obj

\* map_record raises: a value that is no number where int() or float() is
\* applied to it, no date_start, or an empty video_p100_watched_actions.
map_record_raises(item, ps, stream) ==
    \/ \E i \in 1..Len(ps) : CoerceRaises(item, ps[i])
    \/ \E e \in Range(ActionEntries(item, stream)) : e.value \notin DOMAIN IntLiteral
    \/ \E e \in Range(UniqueEntries(item)) : e.value \notin DOMAIN IntLiteral
    \/ \E e \in Range(ValueEntries(item, stream)) : e.value \notin DOMAIN FloatLiteral
    \/ "date_start" \notin DOMAIN item
    \/ /\ \E i \in 1..Len(ps) : ps[i][1] = "video_views_p100"
       /\ "video_p100_watched_actions" \in DOMAIN item
       /\ \/ item.video_p100_watched_actions = <<>>
          \/ item.video_p100_watched_actions[1].value \notin DOMAIN IntLiteral

\* map_record, for an item it does not raise on
map_record(item, ps, stream) ==
    LET projected == [k \in {ps[i][1] : i \in 1..Len(ps)} |->
                        Projected(item, ps[CHOOSE i \in 1..Len(ps) : ps[i][1] = k])]
        counted == ActionCounts(projected, ActionEntries(item, stream))
        unique == UniqueLinkClicks(counted, UniqueEntries(item))
        valued == PurchaseValue(unique, ValueEntries(item, stream))
        dated == Put(valued, "report_date", RawValue(item.date_start))
    IN  VideoViews(dated, item)

\* ------------------------------------------- retrieve_report_for_account
\* Building reporting_params raises: KeyError on the stream, IndexError on
\* date_parts[1], ValueError in parse_date.
ParamsRaise(cfg) ==
    \/ cfg.stream \notin schema_map_keys
    \/ Len(split(cfg.dateRange)) < 2
    \/ parse_date_raises(split(cfg.dateRange)[1])
    \/ parse_date_raises(split(cfg.dateRange)[2])

\* (mutant) the limit is the one the ad-accounts fetch was left with
reporting_params_SharedLimit(cfg) ==
    [limit |-> fetch[0].limit,
     fields |-> schema_map(cfg.stream).fields,
     time_range |-> [since |-> parse_date(split(cfg.dateRange)[1]),
                     until |-> parse_date(split(cfg.dateRange)[2])],
     time_increment |-> 1,
     level |-> schema_map(cfg.stream).level]

reporting_params(cfg) ==
    [limit |-> MAX_PAGE_SIZE,
     fields |-> schema_map(cfg.stream).fields,
     time_range |-> [since |-> parse_date(split(cfg.dateRange)[1]),
                     until |-> parse_date(split(cfg.dateRange)[2])],
     time_increment |-> 1,
     level |-> schema_map(cfg.stream).level]

\* Tasks running on the executor's threads.
Running == {a \in Accounts : task[a] = "running"}

\* (mutant) a task never waits for a thread
FreeWorker_Unbounded == TRUE

\* A thread of the pool is free to take a task.
FreeWorker == Cardinality(Running) < max_workers

\* A pool thread takes the oldest queued task and runs the lambda up to the
\* call of retrieve_paged_data (lines 133-147).
StartAccount(a) ==
    /\ pc = "join"
    /\ task[a] = "queued"
    /\ \A b \in Accounts : b < a => task[b] # "queued"
    /\ FreeWorker
    /\ invoked' = [invoked EXCEPT ![a] = @ + 1]
    /\ IF ParamsRaise(config)
       THEN /\ task' = [task EXCEPT ![a] = "raised"]
            /\ UNCHANGED fetch
       ELSE /\ task' = [task EXCEPT ![a] = "running"]
            /\ fetch' = [fetch EXCEPT ![a] = EnterFetch(reporting_params(config).limit)]
    /\ UNCHANGED <<config, pc, me_requested, account_ids, http, sink>>

\* (mutant) nothing is written for an empty report
Written_SkipEmpty(stream, acc_report) ==
    IF acc_report = <<>> THEN <<>> ELSE <<[stream |-> stream, records |-> acc_report]>>

\* (mutant) the batch is written twice
Written_Twice(stream, acc_report) ==
    <<[stream |-> stream, records |-> acc_report], [stream |-> stream, records |-> acc_report]>>

\* singer.write_records(self.stream, acc_report): what the sink receives
Written(stream, acc_report) == <<[stream |-> stream, records |-> acc_report]>>

\* The fetch returned: map every item and write the batch (lines 147-149).
\* An exception of map_record ends the task before anything is written.
FinishAccount(a) ==
    /\ task[a] = "running"
    /\ fetch[a].st = "returned"
    /\ LET items == fetch[a].result
       IN  IF \E i \in 1..Len(items) : map_record_raises(items[i], config.props, config.stream)
           THEN /\ task' = [task EXCEPT ![a] = "raised"]
                /\ UNCHANGED sink
           ELSE /\ task' = [task EXCEPT ![a] = "done"]
                /\ sink' = [sink EXCEPT ![a] = @ \o
                              Written(config.stream,
                                      [i \in 1..Len(items) |-> map_record(items[i], config.props, config.stream)])]
    /\ UNCHANGED <<config, pc, me_requested, account_ids, fetch, http, invoked>>

\* -------------------------------------------------- retrieve_account_ids
\* GET /me and .json()['id'] (line 192): an exception here leaves
\* get_reports; otherwise the ad-accounts fetch is entered (lines 194-199).
GetMe ==
    /\ pc = "me"
    /\ me_requested' = me_requested + 1
    /\ \E ok \in BOOLEAN :
         IF ok
         THEN /\ pc' = "adaccounts"
              /\ fetch' = [fetch EXCEPT ![0] = EnterFetch(MAX_PAGE_SIZE)]
         ELSE /\ pc' = "failed"
              /\ UNCHANGED fetch
    /\ UNCHANGED <<config, account_ids, http, task, invoked, sink>>

\* ----------------------------------------------------------- get_reports
\* (mutant) the last account is not submitted
Submitted_DropLast(ids) ==
    [a \in Accounts |-> IF a < Len(ids) THEN "queued" ELSE "none"]

\* executor.map submits one task per element of enumerate(account_ids).
Submitted(ids) ==
    [a \in Accounts |-> IF a <= Len(ids) THEN "queued" ELSE "none"]

\* account_ids = list(map(lambda acc: acc['id'], accounts))
IdsOf(accounts) == [i \in 1..Len(accounts) |-> accounts[i].id]

\* The ad-accounts fetch returned: lines 200-201 and 126-130 up to the
\* submission of the tasks.
Submit ==
    /\ pc = "adaccounts"
    /\ fetch[0].st = "returned"
    /\ account_ids' = IdsOf(fetch[0].result)
    /\ task' = Submitted(IdsOf(fetch[0].result))
    /\ pc' = "join"
    /\ UNCHANGED <<config, me_requested, fetch, http, invoked, sink>>

\* (mutant) the pool is left without waiting for its tasks
Joined_NoWait == TRUE

\* Leaving the `with` block: shutdown(wait=True) returns once every task has
\* ended; the iterator of executor.map is never read, so an exception a task
\* raised stays in its future.
Joined == \A a \in Accounts : task[a] \in {"none", "done", "raised"}

Join ==
    /\ pc = "join"
    /\ Joined
    /\ pc' = "done"
    /\ UNCHANGED <<config, me_requested, account_ids, fetch, http, task, invoked, sink>>

\* ------------------------------------------------------------- alphabets
\* What the ad-accounts endpoint answers in a run: a failure, a body that
\* does not parse, or one page of up to `cap` accounts.
DiscoveryResponses(n, cap) ==
    {FailureStatus, Unparseable} \cup {Page([data |-> Data(0, n, k)]) : k \in 0..cap}

\* What the insights endpoint answers in a run: a failure, a body that does
\* not parse, or one page: empty, of one item, or of a good and a bad item.
InsightResponses(n) ==
    {FailureStatus, Unparseable, Page([data |-> <<>>]),
     Page([data |-> <<GoodInsight(n, 1)>>]),
     Page([data |-> <<GoodInsight(n, 1), UndatedInsight(n, 2)>>]),
     Page([data |-> <<UncoercibleInsight(n, 1)>>])}

\* The insights endpoint of the pool runs: one page of one item, which maps
\* or does not.
PoolInsightResponses(n) ==
    {Page([data |-> <<GoodInsight(n, 1)>>]), Page([data |-> <<UndatedInsight(n, 1)>>])}

\* ---------------------------------------------------------------- config
Configs ==
    {[stream |-> st, dateRange |-> dr, props |-> props] :
        st \in {"campaign_performance_report", "no_such_report"},
        dr \in {<<"20200101", ",", "20200131">>,
                <<"20200101">>,
                <<"2020-01-01", ",", "2020-01-31">>,
                <<"20200101", ",", "20200131", ",", "20200201">>}}

\* ------------------------------------------------------------------ Spec
\* The service as constructed, get_reports not yet called.
Init ==
    /\ config \in Configs
    /\ pc = "me"
    /\ me_requested = 0
    /\ account_ids = <<>>
    /\ fetch = [c \in Ctx |-> NoFetch]
    /\ http = [c \in Ctx |-> <<>>]
    /\ task = [a \in Accounts |-> "none"]
    /\ invoked = [a \in Accounts |-> 0]
    /\ sink = [a \in Accounts |-> <<>>]

Discover == Request(0, DiscoveryResponses(Len(http[0]) + 1, MaxAccounts), MaxPages)
Insights == \E a \in Accounts : Request(a, InsightResponses(Len(http[a]) + 1), MaxPages)
Start == \E a \in Accounts : StartAccount(a)
Finish == \E a \in Accounts : FinishAccount(a)

Next == GetMe \/ Discover \/ Submit \/ Start \/ Insights \/ Finish \/ Join

Spec == Init /\ [][Next]_vars

\* -------------------------------------------------------------- SpecPool
\* Runs with more accounts than pool threads.
PoolDiscover ==
    Request(0, {Page([data |-> Data(0, Len(http[0]) + 1, k)]) : k \in 0..PoolAccounts}, MaxPages)
PoolInsights == \E a \in Accounts : Request(a, PoolInsightResponses(Len(http[a]) + 1), MaxPages)

NextPool == GetMe \/ PoolDiscover \/ Submit \/ Start \/ PoolInsights \/ Finish \/ Join

SpecPool == Init /\ [][NextPool]_vars

\* -------------------------------------------------------------- FairPool
\* The pool runs with the main thread and every pool thread going on while
\* it can take a step, and every request answered: as long as some step of
\* the run is possible, one is taken.  Every account has one page of one
\* item, which maps for the odd accounts and has no date_start for the even.
FairInsights ==
    \E a \in Accounts :
        Request(a, {Page([data |-> <<IF a % 2 = 1 THEN GoodInsight(Len(http[a]) + 1, 1)
                                     ELSE UndatedInsight(Len(http[a]) + 1, 1)>>])}, MaxPages)

NextFair == GetMe \/ PoolDiscover \/ Submit \/ Start \/ FairInsights \/ Finish \/ Join

FairPool == Init /\ [][NextFair]_vars /\ WF_vars(NextFair)

\* --------------------------------------------------------------- SpecMap
\* The mapping of one raw item: the only account's fetch has returned one page
\* of one item, of any shape out of the ones below, under one of two streams
\* and one of four destination schemas.
MaxActions == 2

Entry(type, value) == [action_type |-> type, value |-> value]

\* The entries an `actions` array is made of.
ActionAlphabet ==
    {Entry("link_click", "3"), Entry("link_click", "12"),
     Entry("offline_conversion.purchase", "3"), Entry("comment", "x")}

RECURSIVE SeqsUpTo(_, _)
SeqsUpTo(S, n) ==
    IF n = 0 THEN {<<>>}
    ELSE LET shorter == SeqsUpTo(S, n - 1)
         IN  shorter \cup {Append(q, x) : q \in shorter, x \in S}

\* One optional key of a JSON object: absent, or with one of the values.
Optional(key, values) == {<<>>} \cup {key :> v : v \in values}

\* The scalar fields of an insight item.
ScalarFields ==
    {[campaign_id |-> <<1, 1>>, date_start |-> "2020-01-01"],
     [campaign_id |-> <<1, 1>>, date_start |-> "2020-01-01", clicks |-> "3", spend |-> "3.75"],
     [campaign_id |-> <<1, 1>>, date_start |-> "2020-01-01", clicks |-> "abc"],
     [campaign_id |-> <<1, 1>>, date_start |-> "2020-01-01", clicks |-> "3",
      link_clicks |-> "0", video_views_p100 |-> "12"],
     [campaign_id |-> <<1, 1>>, clicks |-> "3"]}

RawItems ==
    {s @@ a @@ u @@ v @@ w :
        s \in ScalarFields,
        a \in Optional("actions", SeqsUpTo(ActionAlphabet, MaxActions)),
        u \in Optional("unique_actions",
                       {<<Entry("post", "3"), Entry("link_click", "12"), Entry("link_click", "3")>>}),
        v \in Optional("action_values",
                       {<<Entry("offline_conversion.purchase", "3.75"),
                          Entry("offline_conversion.purchase", "12")>>}),
        w \in Optional("video_p100_watched_actions",
                       {<<>>, <<Entry("video_view", "3")>>})}

\* Destination schemas: with and without report_date and the action keys.
Schemas ==
    {SubSeq(props, 1, 3),
     props,
     props \o << <<"link_clicks", "integer">>, <<"unique_link_clicks", "integer">>,
                 <<"video_views_p100", "integer">> >>,
     props \o << <<"link_clicks", "integer">>, <<"unique_link_clicks", "integer">>,
                 <<"video_views_p100", "integer">>,
                 <<"offline_conversion_purchases", "integer">>,
                 <<"offline_conversion_purchase_value", "number">> >>}

InitMap ==
    /\ config \in {[ValidConfig EXCEPT !.stream = st, !.props = ps] :
                     st \in {"campaign_performance_report",
                             "offline_conversion_performance_report"},
                     ps \in Schemas}
    /\ pc = "join"
    /\ me_requested = 1
    /\ account_ids = <<AccountItem(1, 1).id>>
    /\ task = [a \in Accounts |-> IF a = 1 THEN "running" ELSE "none"]
    /\ invoked = [a \in Accounts |-> IF a = 1 THEN 1 ELSE 0]
    /\ sink = [a \in Accounts |-> <<>>]
    /\ \E item \in RawItems :
         LET r == Page([data |-> <<item>>])
         IN  /\ http = [c \in Ctx |-> IF c = 1
                                      THEN <<[request |-> RequestOf(EnterFetch(MAX_PAGE_SIZE)),
                                              response |-> r]>>
                                      ELSE <<>>]
             /\ fetch = [c \in Ctx |-> IF c = 1 THEN Iteration(EnterFetch(MAX_PAGE_SIZE), r)
                                       ELSE [NoFetch EXCEPT !.st = IF c = 0 THEN "returned"
                                                                   ELSE "idle"]]

NextMap == Finish \/ Join

SpecMap == InitMap /\ [][NextMap]_vars

\* ------------------------------------------------ reading the exchanges
\* A non-success status came back.
IsFailure(x) == x.response.kind = "http" /\ x.response.status # HTTP_OK
\* A success status came back and the body parsed as JSON.
IsPage(x) == x.response.kind = "http" /\ x.response.status = HTTP_OK /\ x.response.parses
HasData(x) == IsPage(x) /\ "data" \in DOMAIN x.response.body
DataOf(x) == IF HasData(x) THEN x.response.body.data ELSE <<>>
HasNext(x) ==
    /\ IsPage(x) /\ "paging" \in DOMAIN x.response.body
    /\ "next" \in DOMAIN x.response.body.paging
HasCursor(x) ==
    /\ IsPage(x) /\ "paging" \in DOMAIN x.response.body
    /\ "cursors" \in DOMAIN x.response.body.paging
    /\ "after" \in DOMAIN x.response.body.paging.cursors
\* The page is one of the paged envelope: a data array, and a paging object,
\* when there is one, that carries cursors.after.
IsEnvelope(x) ==
    /\ HasData(x)
    /\ "paging" \in DOMAIN x.response.body => HasCursor(x)
\* Handling the response raised inside the loop.
Raised(x) == ~IsFailure(x) /\ ~IsEnvelope(x)

\* The items of the data arrays of the exchanges xs, in order.
PagesData(xs) == Flatten([i \in 1..Len(xs) |-> DataOf(xs[i])])

\* The exchange whose non-success status at the maximum limit made the fetch
\* restart (0 when there is none), and the exchanges of the current attempt.
Restart(c) ==
    LET S == {i \in 1..Len(http[c]) :
                IsFailure(http[c][i]) /\ http[c][i].request.limit = MAX_PAGE_SIZE}
    IN  IF S = {} THEN 0 ELSE CHOOSE i \in S : TRUE
Attempt(c) == SubSeq(http[c], Restart(c) + 1, Len(http[c]))
Abandoned(c) == SubSeq(http[c], 1, Restart(c))

\* ---------------------------------------------------------------- C1
\* C1: in a fetch whose every request got a success status and a body that
\* parsed, the result is the concatenation of the pages' data arrays in the
\* order of the requests; the first request carries the empty cursor at the
\* maximum limit and each later one the paging.cursors.after of the page
\* before it, which carried a next link; with every page an envelope, the
\* fetch has returned exactly when the last page has no next link; and N
\* pages of k items each give N*k items.
C1_Fetch(c) ==
    LET xs == http[c]
        n  == Len(xs)
    IN  (\A i \in 1..n : IsPage(xs[i])) =>
          /\ fetch[c].result = PagesData(xs)
          /\ n >= 1 => xs[1].request = [limit |-> MAX_PAGE_SIZE, after |-> NoCursor]
          /\ \A i \in 2..n :
                /\ HasNext(xs[i-1]) /\ HasCursor(xs[i-1])
                /\ xs[i].request.after = xs[i-1].response.body.paging.cursors.after
                /\ xs[i].request.limit = MAX_PAGE_SIZE
          /\ (n >= 1 /\ \A i \in 1..n : IsEnvelope(xs[i])) =>
                (fetch[c].st = "returned" <=> ~HasNext(xs[n]))
          /\ \A k \in 0..(MaxItems + 1) :
                (\A i \in 1..n : Len(DataOf(xs[i])) = k) => Len(fetch[c].result) = n * k
C1_PagedConcatenation == \A c \in Ctx : C1_Fetch(c)

\* MaxPages chained pages of MaxItems items each have been fetched.
C1_Witness ==
    \E c \in Ctx :
        /\ fetch[c].st = "returned"
        /\ Len(http[c]) = MaxPages /\ MaxPages >= 2
        /\ \A i \in 1..Len(http[c]) :
              IsEnvelope(http[c][i]) /\ Len(DataOf(http[c][i])) = MaxItems
        /\ Len(fetch[c].result) = MaxPages * MaxItems

\* ---------------------------------------------------------------- C2
\* The restart after a non-success status at the maximum limit: the next
\* request is at the lower limit with the empty cursor, every later request
\* is at the lower limit, and once the fetch has returned with every request
\* of the restarted attempt a page, the result is the restarted attempt's
\* items and holds no item of the abandoned attempt.
C2_Restarted(c) ==
    LET xs == http[c]
        j  == Restart(c)
    IN  j > 0 =>
          /\ fetch[c].limit = LOWER_LIMIT
          /\ \A i \in 1..j : xs[i].request.limit = MAX_PAGE_SIZE
          /\ Len(xs) > j => xs[j+1].request = [limit |-> LOWER_LIMIT, after |-> NoCursor]
          /\ \A i \in (j+1)..Len(xs) : xs[i].request.limit = LOWER_LIMIT
          /\ (fetch[c].st = "returned" /\ \A i \in (j+1)..Len(xs) : IsPage(xs[i])) =>
                /\ fetch[c].result = PagesData(Attempt(c))
                /\ Range(fetch[c].result) \cap Range(PagesData(Abandoned(c))) = {}

\* C2 (as amended): as the claim, with the result not empty whenever the
\* pages of the restarted attempt carried an item.
C2_RetryDowngrade ==
    \A c \in Ctx :
        /\ C2_Restarted(c)
        /\ (Restart(c) > 0 /\ fetch[c].st = "returned"
              /\ (\A i \in 1..Len(Attempt(c)) : IsPage(Attempt(c)[i]))
              /\ PagesData(Attempt(c)) # <<>>)
           => fetch[c].result # <<>>

\* C2 (as claimed): whenever every request of the restarted attempt
\* succeeds, the result is not empty.
C2_AsClaimed ==
    \A c \in Ctx :
        /\ C2_Restarted(c)
        /\ (Restart(c) > 0 /\ fetch[c].st = "returned"
              /\ (\A i \in 1..Len(Attempt(c)) : IsPage(Attempt(c)[i])))
           => fetch[c].result # <<>>

\* The first attempt accumulated a page and failed on a later one, and the
\* restarted attempt fetched pages with items.
C2_Witness ==
    \E c \in Ctx :
        /\ Restart(c) >= 2 /\ PagesData(Abandoned(c)) # <<>>
        /\ fetch[c].st = "returned"
        /\ Len(Attempt(c)) >= 2
        /\ \A i \in 1..Len(Attempt(c)) : IsEnvelope(Attempt(c)[i])
        /\ fetch[c].result # <<>>

\* ---------------------------------------------------------------- C3
\* C3: after a non-success status at the maximum limit and a non-success
\* status in the restarted attempt, the fetch has returned the empty
\* sequence to its caller, and that request was its last.
C3_PermanentFailure ==
    \A c \in Ctx :
        \A i \in 1..Len(http[c]) :
            (Restart(c) > 0 /\ i > Restart(c) /\ IsFailure(http[c][i])) =>
                /\ fetch[c].st = "returned"
                /\ fetch[c].result = <<>>
                /\ i = Len(http[c])

\* Both attempts failed, the second after accumulating a page of items.
C3_Witness ==
    \E c \in Ctx :
        /\ Restart(c) > 0
        /\ Len(Attempt(c)) >= 2
        /\ IsFailure(http[c][Len(http[c])])
        /\ PagesData(Attempt(c)) # <<>>
        /\ fetch[c].st = "returned"

\* ---------------------------------------------------------------- C4
\* When handling a response raised inside the loop, at either limit, that
\* request is the last of the fetch, the fetch has returned to its caller,
\* and the result is exactly the items accumulated in the current attempt.
C4_Partial(c) ==
    \A i \in 1..Len(http[c]) :
        Raised(http[c][i]) =>
            /\ i = Len(http[c])
            /\ fetch[c].st = "returned"
            /\ fetch[c].result = PagesData(Attempt(c))

\* C4 (as amended): as the claim, with the result not empty whenever an
\* item was accumulated in the current attempt before the exception.
C4_PartialOnException ==
    \A c \in Ctx :
        /\ C4_Partial(c)
        /\ (Len(http[c]) > 0 /\ Raised(http[c][Len(http[c])])
              /\ PagesData(Attempt(c)) # <<>>)
           => fetch[c].result # <<>>

\* C4 (as claimed): whenever a page was accumulated in the current attempt
\* before the exception, the result is not empty.
C4_AsClaimed ==
    \A c \in Ctx :
        /\ C4_Partial(c)
        /\ (Len(http[c]) > 0 /\ Raised(http[c][Len(http[c])])
              /\ \E i \in 1..Len(Attempt(c)) : HasData(Attempt(c)[i]))
           => fetch[c].result # <<>>

\* An exception in the restarted attempt after it accumulated items.
C4_Witness ==
    \E c \in Ctx :
        /\ Restart(c) > 0
        /\ Len(Attempt(c)) >= 2
        /\ Raised(http[c][Len(http[c])])
        /\ fetch[c].result # <<>>
        /\ fetch[c].st = "returned"

\* ------------------------------------------------------ reading the run
\* The accounts of the run: the positions of account_ids.
Discovered == 1..Len(account_ids)

\* The task of account a ended in an exception of map_record.
MappingError(a) ==
    /\ task[a] = "raised"
    /\ fetch[a].st = "returned"
    /\ \E i \in 1..Len(fetch[a].result) : map_record_raises(fetch[a].result[i], config.props, config.stream)

\* Records the sink received for account a on the configured stream.
RecordsPushed(a) ==
    Len(Flatten([i \in 1..Len(sink[a]) |->
                    IF sink[a][i].stream = config.stream THEN sink[a][i].records ELSE <<>>]))

\* No HTTP request has been issued: neither /me, nor ad-accounts, nor insights.
NoRequestIssued == me_requested = 0 /\ \A c \in Ctx : http[c] = <<>>

\* The configuration is in error: the stream is no key of the registry, or
\* the date range is not two comma-separated YYYYMMDD dates.
ConfigError(cfg) ==
    \/ cfg.stream \notin schema_map_keys
    \/ Len(split(cfg.dateRange)) # 2
    \/ \E i \in 1..Len(split(cfg.dateRange)) : parse_date_raises(split(cfg.dateRange)[i])

\* The fetch of context c ended on a non-success status at the lower limit.
PermanentlyFailed(c) ==
    /\ fetch[c].st = "returned"
    /\ \E i \in 1..Len(http[c]) :
          IsFailure(http[c][i]) /\ http[c][i].request.limit = LOWER_LIMIT

\* ---------------------------------------------------------------- C5
\* C5: retrieve_report_for_account is never invoked twice for an account nor
\* for a position outside account_ids, and when get_reports has returned it
\* has been invoked exactly once for each discovered account.
C5_EachAccountOnce ==
    /\ \A a \in Accounts : invoked[a] <= 1 /\ (a \notin Discovered => invoked[a] = 0)
    /\ pc = "done" => \A a \in Discovered : invoked[a] = 1

\* A run over more accounts than the pool has threads has returned.
C5_Witness ==
    /\ pc = "done"
    /\ Len(account_ids) = PoolAccounts /\ PoolAccounts > max_workers
    /\ \A a \in Discovered : invoked[a] = 1

\* ---------------------------------------------------------------- C6
\* C6 (as claimed): the run never completes normally after map_record raised
\* for an item of an account.
C6_AsClaimed == (\E a \in Accounts : MappingError(a)) => pc # "done"

\* ---------------------------------------------------------------- C7
\* C7 (as claimed): the run never completes normally after the ad-accounts
\* fetch failed (a non-success status at both limits, or a response that
\* does not parse) or returned no account.
C7_AsClaimed ==
    (/\ fetch[0].st = "returned"
     /\ \/ PermanentlyFailed(0)
        \/ \E i \in 1..Len(http[0]) : Raised(http[0][i])
        \/ IdsOf(fetch[0].result) = <<>>)
    => pc # "done"

\* ---------------------------------------------------------------- C8
\* The task of account a ended in an exception of the parameter building.
ConfigFailure(a) == task[a] = "raised" /\ fetch[a].st = "idle"

\* C8 (as claimed): a run whose configuration is in error never completes
\* normally, and where it fails on the configuration no HTTP request has
\* been issued.
C8_AsClaimed ==
    ConfigError(config) =>
        /\ pc # "done"
        /\ \A a \in Accounts : ConfigFailure(a) => NoRequestIssued

\* ---------------------------------------------------------------- C9
\* C9 (as claimed): when the run has ended, every account has as many
\* records in the sink, on the run's stream, as its insights fetch returned
\* items.
C9_AsClaimed ==
    pc = "done" => \A a \in Discovered : RecordsPushed(a) = Len(fetch[a].result)

\* ---------------------------------------------------------------- C10
\* C10: an account whose insights fetch failed permanently has, once its
\* task ended, pushed one batch of zero records on the stream; the run does
\* not abort; and when the run has ended every other account has been
\* invoked and fetched, and has pushed one batch of its mapped items unless
\* its own mapping raised.
C10_FailureIsolation ==
    \A a \in Accounts :
        PermanentlyFailed(a) =>
            /\ pc # "failed"
            /\ task[a] \in {"running", "done"}
            /\ task[a] = "done" => sink[a] = <<[stream |-> config.stream, records |-> <<>>]>>
            /\ pc = "done" =>
                 /\ task[a] = "done"
                 /\ \A b \in Discovered \ {a} :
                       /\ invoked[b] = 1 /\ fetch[b].st = "returned"
                       /\ \/ MappingError(b)
                          \/ /\ task[b] = "done"
                             /\ Len(sink[b]) = 1
                             /\ sink[b][1].stream = config.stream
                             /\ Len(sink[b][1].records) = Len(fetch[b].result)

\* The run ended with one account failed permanently and another one's
\* records in the sink.
C10_Witness ==
    /\ pc = "done"
    /\ \E a, b \in Discovered :
          /\ PermanentlyFailed(a)
          /\ sink[a] = <<[stream |-> config.stream, records |-> <<>>]>>
          /\ b # a /\ task[b] = "done" /\ RecordsPushed(b) > 0


\* ------------------------------------------------ reading the records
\* The (raw item, output record) pairs of the batches pushed so far.
Mapped ==
    {<<fetch[a].result[i], sink[a][b].records[i]>> :
        <<a, b, i>> \in {t \in Accounts \X (1..1) \X (1..MaxItems) :
                           /\ t[2] <= Len(sink[t[1]])
                           /\ t[3] <= Len(sink[t[1]][t[2]].records)}}

SchemaKeys == {config.props[i][1] : i \in 1..Len(config.props)}
TypeOf(key) == config.props[CHOOSE i \in 1..Len(config.props) : config.props[i][1] = key][2]

\* The value the schema alone gives a key: the raw value coerced to the
\* declared type, or the default of the type.
Coerced(item, key) ==
    IF TypeOf(key) = "integer" THEN [int |-> IntLiteral[item[key]]]
    ELSE IF TypeOf(key) = "number" THEN [float |-> FloatLiteral[item[key]].hundredths]
    ELSE [raw |-> item[key]]
SchemaValue(item, key) ==
    IF key \in DOMAIN item THEN Coerced(item, key)
    ELSE IF TypeOf(key) \in {"integer", "number"} THEN [int |-> 0] ELSE [raw |-> ""]

SupportedTypes == Range(schema_map(config.stream).supported_actions)
\* The action types of the entries of item[array].
TypesIn(item, array) ==
    IF array \in DOMAIN item THEN {item[array][i].action_type : i \in 1..Len(item[array])}
    ELSE {}
\* The keys the three action-extraction steps set for the item.
ActionDerived(item) ==
    {ActionKey(t) : t \in TypesIn(item, "actions") \cap SupportedTypes}
    \cup (IF "link_click" \in TypesIn(item, "unique_actions")
          THEN {"unique_link_clicks"} ELSE {})
    \cup (IF /\ schema_map(config.stream).action_values
             /\ "offline_conversion.purchase" \in TypesIn(item, "action_values")
          THEN {"offline_conversion_purchase_value"} ELSE {})
\* The video step reads the item's video_p100_watched_actions array.
VideoDerived(item) ==
    IF "video_p100_watched_actions" \in DOMAIN item THEN {"video_views_p100"} ELSE {}

\* C11 as stated: every schema key is in the record, with the schema's value
\* unless an action-extraction step (the video step included) set the key.
C11_AsClaimed ==
    \A m \in Mapped : \A k \in SchemaKeys :
        /\ k \in DOMAIN m[2]
        /\ k \notin ActionDerived(m[1]) \cup VideoDerived(m[1]) => m[2][k] = SchemaValue(m[1], k)

\* C11: every record returned by map_record contains every key of the
\* destination schema; report_date carries the item's date_start,
\* video_views_p100 carries the first video_p100_watched_actions value or 0,
\* and any other key that no action-extraction step sets carries the coerced
\* raw value when the item has the key and else the default of its type (0
\* for integer and number, the empty string otherwise).
C11_SchemaKeysPresent ==
    \A m \in Mapped : \A k \in SchemaKeys :
        /\ k \in DOMAIN m[2]
        /\ k = "report_date" => m[2][k] = [raw |-> m[1].date_start]
        /\ k = "video_views_p100" =>
              m[2][k] = [int |-> IF "video_p100_watched_actions" \in DOMAIN m[1]
                                 THEN IntLiteral[m[1].video_p100_watched_actions[1].value]
                                 ELSE 0]
        /\ k \notin ActionDerived(m[1]) \cup {"report_date", "video_views_p100"} =>
              m[2][k] = SchemaValue(m[1], k)

\* An item without clicks and spend was mapped: both are 0 in the record, and
\* campaign_id is the raw value.
C11_Witness ==
    \E m \in Mapped :
        /\ {"campaign_id", "clicks", "spend"} \subseteq SchemaKeys
        /\ {"clicks", "spend"} \cap DOMAIN m[1] = {}
        /\ m[2]["clicks"] = [int |-> 0] /\ m[2]["spend"] = [int |-> 0]
        /\ m[2]["campaign_id"] = [raw |-> m[1].campaign_id]

\* C12 as stated: no key outside the destination schema is in a record, the
\* keys derived from actions, unique_actions and action_values included
\* (report_date, which every record has, is left aside here).
C12_AsClaimed == \A m \in Mapped : DOMAIN m[2] \ {"report_date"} \subseteq SchemaKeys

\* The last entry of item.actions with the action type.
LastOf(item, type) ==
    item.actions[CHOOSE i \in 1..Len(item.actions) :
                    /\ item.actions[i].action_type = type
                    /\ \A j \in (i + 1)..Len(item.actions) : item.actions[j].action_type # type]

\* C13: for every action type of the item's `actions` array that the stream
\* supports, the record's key `<type with . replaced by _>s` is the integer
\* value of the last entry of that type; a type the stream does not support
\* leaves its key as the schema alone gives it, and absent when the schema
\* does not declare it.
C13_LastWins ==
    \A m \in Mapped : \A t \in TypesIn(m[1], "actions") :
        IF t \in SupportedTypes
        THEN /\ ActionKey(t) \in DOMAIN m[2]
             /\ m[2][ActionKey(t)] = [int |-> IntLiteral[LastOf(m[1], t).value]]
        ELSE IF ActionKey(t) \in SchemaKeys
             THEN m[2][ActionKey(t)] = SchemaValue(m[1], ActionKey(t))
             ELSE ActionKey(t) \notin DOMAIN m[2]

\* Two link_click entries of different values were mapped for an item that
\* has a link_clicks field of its own under a schema that declares it: the
\* record has the value of the second entry.
C13_Witness ==
    \E m \in Mapped :
        /\ "link_clicks" \in SchemaKeys \cap DOMAIN m[1]
        /\ "actions" \in DOMAIN m[1]
        /\ m[1].actions = <<Entry("link_click", "3"), Entry("link_click", "12")>>
        /\ m[2]["link_clicks"] = [int |-> 12]
        /\ Coerced(m[1], "link_clicks") = [int |-> 0]


\* ---------------------------------------------------------------- C14
\* The requests of the fetch of context c issued at the limit.
AtLimit(c, limit) == {i \in 1..Len(http[c]) : http[c][i].request.limit = limit}
\* The requests of the fetch that carry the empty cursor.
FromStart(c) == {i \in 1..Len(http[c]) : http[c][i].request.after = NoCursor}

\* C14: within one fetch the requests are at limit 5000 up to at most one
\* non-success status at that limit and at limit 1000 from then on (the limit
\* is never raised again and never lowered further); only the first request
\* and the one following that status carry the empty cursor; and a
\* non-success status at limit 1000 is the last exchange of the fetch, which
\* has then returned.
C14_SingleShot ==
    \A c \in Ctx :
        LET xs == http[c]
            failed == {i \in AtLimit(c, MAX_PAGE_SIZE) : IsFailure(xs[i])}
        IN  /\ AtLimit(c, MAX_PAGE_SIZE) \cup AtLimit(c, LOWER_LIMIT) = 1..Len(xs)
            /\ fetch[c].limit \in {MAX_PAGE_SIZE, LOWER_LIMIT}
            /\ Cardinality(failed) <= 1
            /\ \A i \in AtLimit(c, LOWER_LIMIT) :
                  /\ \E j \in failed : j < i
                  /\ \A j \in i..Len(xs) : j \in AtLimit(c, LOWER_LIMIT)
            /\ AtLimit(c, LOWER_LIMIT) # {} => fetch[c].limit = LOWER_LIMIT
            /\ FromStart(c) \subseteq {1} \cup {j + 1 : j \in failed}
            /\ \A i \in AtLimit(c, LOWER_LIMIT) :
                  IsFailure(xs[i]) => i = Len(xs) /\ fetch[c].st = "returned"

\* A fetch that got a page and then a non-success status at limit 5000,
\* and a page and then a non-success status at limit 1000.
C14_Witness ==
    \E c \in Ctx :
        /\ Len(http[c]) = 4
        /\ IsEnvelope(http[c][1]) /\ IsFailure(http[c][2])
        /\ IsEnvelope(http[c][3]) /\ IsFailure(http[c][4])
        /\ AtLimit(c, LOWER_LIMIT) = {3, 4}
        /\ fetch[c].st = "returned"

\* ---------------------------------------------------------------- C15
\* C15: when the last exchange of a fetch is a non-success status to a
\* request at limit 1000, the fetch has returned the empty sequence,
\* whatever the pages of either attempt carried; when instead it raised
\* at limit 1000, the fetch has returned the items of the restarted attempt.
C15_DegradedFailureDiscards ==
    \A c \in Ctx :
        LET xs == http[c]
            n  == Len(xs)
        IN  (n > 0 /\ xs[n].request.limit = LOWER_LIMIT) =>
              /\ IsFailure(xs[n]) =>
                    fetch[c].st = "returned" /\ Len(fetch[c].result) = 0
              /\ Raised(xs[n]) =>
                    fetch[c].st = "returned" /\ fetch[c].result = PagesData(SubSeq(xs, Restart(c) + 1, n))

\* Both attempts accumulated items before their non-success status, and
\* nothing was returned.
C15_Witness ==
    \E c \in Ctx :
        /\ Restart(c) >= 2
        /\ PagesData(Abandoned(c)) # <<>>
        /\ PagesData(Attempt(c)) # <<>>
        /\ IsFailure(http[c][Len(http[c])])
        /\ http[c][Len(http[c])].request.limit = LOWER_LIMIT
        /\ fetch[c].st = "returned" /\ fetch[c].result = <<>>

\* ---------------------------------------------------------------- C16
\* C16 as stated: after every page with a data array, the fetch goes on
\* exactly when the page had a next link, and the next request carries the
\* page's paging.cursors.after when the page has one and the empty cursor
\* otherwise.
C16_AsClaimed ==
    \A c \in Ctx :
        \A i \in 1..Len(http[c]) :
            HasData(http[c][i]) =>
                /\ HasNext(http[c][i]) <=> (i < Len(http[c]) \/ fetch[c].st = "loop")
                /\ i < Len(http[c]) =>
                      http[c][i+1].request.after =
                          IF HasCursor(http[c][i])
                          THEN http[c][i].response.body.paging.cursors.after
                          ELSE NoCursor


\* ---------------------------------------------------------------- C17
\* C17: at most max_workers (5) account tasks are in progress at any time.
C17_BoundedPool == Cardinality(Running) <= max_workers

\* Five tasks are in progress while a sixth waits in the queue.
C17_Witness ==
    /\ Cardinality(Running) = max_workers
    /\ \E a \in Discovered : task[a] = "queued"

\* ---------------------------------------------------------------- C18
\* The task of every discovered account has ended: it pushed its batch, or
\* it ended with an exception.
AllUnitsEnded == \A a \in Discovered : task[a] \in {"done", "raised"}

\* C18: under fair scheduling and finite page chains get_reports eventually
\* ends; it ends with an exception only out of the GET /me request, before
\* any account is discovered, and otherwise returns; and whenever it has
\* returned, the task of every discovered account has ended, none being
\* queued or running.
C18_RunCompletion ==
    /\ <>(pc \in {"done", "failed"})
    /\ (pc = "adaccounts") ~> (pc = "done")
    /\ [](pc = "failed" => http[0] = <<>> /\ account_ids = <<>>)
    /\ [](pc = "done" => AllUnitsEnded)

\* get_reports has returned from a run of more accounts than pool threads, in
\* which a task pushed its batch and another ended with an exception.
C18_Witness ==
    /\ pc = "done"
    /\ Len(account_ids) > max_workers
    /\ \E a, b \in Discovered : task[a] = "done" /\ task[b] = "raised"

\* ---------------------------------------------------------------- C19
\* C19: an account's batch is in the sink exactly when its task has finished
\* fetching and mapping: one push per account, tagged with the stream name
\* and holding one record per fetched item; and a task whose fetch has
\* returned can always go on to map and push, whatever the other tasks are
\* doing.
C19_UnbufferedEmission ==
    \A a \in Accounts :
        /\ Len(sink[a]) <= 1
        /\ task[a] = "done" <=> Len(sink[a]) = 1
        /\ \A b \in 1..Len(sink[a]) :
              /\ sink[a][b].stream = config.stream
              /\ Len(sink[a][b].records) = Len(fetch[a].result)
        /\ (task[a] = "running" /\ fetch[a].st = "returned") => ENABLED FinishAccount(a)

\* The batch of one account is in the sink while another account is still
\* fetching and a third has not yet been started.
C19_Witness ==
    \E a, b, c \in Discovered :
        /\ Len(sink[a]) = 1 /\ sink[a][1].records # <<>>
        /\ task[b] = "running" /\ fetch[b].st = "loop"
        /\ task[c] = "queued"

\* ---------------------------------------------------------------- C20
\* C20: the first request of every account's insights fetch is at limit
\* 5000 with the empty cursor, whatever the limits the ad-accounts fetch and
\* the other accounts' fetches were left with.
C20_NoLeak ==
    \A a \in Accounts :
        Len(http[a]) >= 1 => http[a][1].request = [limit |-> MAX_PAGE_SIZE, after |-> NoCursor]

\* The ad-accounts fetch and the first account's fetch were both restarted at
\* limit 1000, and the second account's fetch has issued its first request.
C20_Witness ==
    /\ Restart(0) > 0 /\ fetch[0].limit = LOWER_LIMIT
    /\ Restart(1) > 0 /\ fetch[1].limit = LOWER_LIMIT
    /\ Len(http[2]) = 1
    /\ http[2][1].request.limit = MAX_PAGE_SIZE

====
